---- MODULE Spec2Model ----
(***************************************************************************)
(* State-machine model of script.py: main() fetches a season's episode     *)
(* catalog page by page, Bot.__init__ reads the episode items the season   *)
(* already has and checks the count invariants, Bot.run creates the        *)
(* missing episode items, links every item to its neighbours and writes    *)
(* the season's has-parts list and episode count.  The knowledge base      *)
(* outlives an invocation: a later invocation starts on what the earlier   *)
(* ones wrote.                                                             *)
(***************************************************************************)
EXTENDS Integers, Sequences, FiniteSets, TLC

\* ---------------------------------------------------------------- bounds
\* Largest number of records a catalog holds.
MaxN == 3
\* Records per catalog page (all pages but the last are full).
PageSize == 2
\* Invocations of main() on the same knowledge base.
MaxInvocations == 2
\* Largest number of records in the catalog of a short season (seasons 2 and 3).
ShortSeason == 2

\* ------------------------------------------------- property and item ids
part_of_series == "P179"
series_ordinal == "P1545"
instance_of == "P31"
anime_tv_series_episode == 102364578
origin_country == "P495"
japan == 17
original_language == "P364"
japanese == 5287
publication_date == "P577"
follows == "P155"
followed_by == "P156"
title == "P1476"
season == "P4908"
number_of_episodes == "P1113"
has_parts == "P527"
mal_id == "P4086"
myanimelist == 4044680
stated_in == "P248"
url_prop == "P854"

\* Python's None, for the integer-valued fields that may be absent.
None == 0

\* ---------------------------------------------------------------- values
\* Claim targets, all of one shape: k is the datatype, n the content.
Item(n) == [k |-> "item", n |-> n]
NoValue == [k |-> "novalue", n |-> 0]
WbQuantity(n) == [k |-> "quantity", n |-> n]
Str(n) == [k |-> "string", n |-> n]
Url(n) == [k |-> "url", n |-> n]
WbTime(n) == [k |-> "time", n |-> n]
WbMonolingualText(n) == [k |-> "monolingualtext", n |-> n]

Range(s) == {s[i] : i \in 1..Len(s)}
Min(a, b) == IF a <= b THEN a ELSE b
Perms(S) == {f \in [1..Cardinality(S) -> S] : \A i, j \in 1..Cardinality(S) : f[i] = f[j] => i = j}

\* ------------------------------------------------------ the invocation's inputs
\* The season item ids typed at the prompt (split on "|").
SeasonIdInputs == {<<1>>}
\* The series item every season is part of.
AnimeItem == 3
\* The id of the k-th episode item the knowledge base creates.
NewItemId(created) == AnimeItem + Len(created) + 1
\* The season's catalog id (its MyAnimeList id claim, or the prompt's answer).
MyAnimeListId(s) == s
\* The series' English label and the season's ordinal within the series, as the
\* knowledge base holds them: the second season's series has no English label.
AnimeNameEn(s) == IF s = 1 THEN AnimeItem ELSE None
SeasonNumber(s) == s

\* ------------------------------------------------------------ the catalog
\* Record i of a season's catalog, as one item of the response's "data" list:
\* the second episode has no native title, the third has not aired yet, the
\* first one's romanized title equals its primary title.
JikanItem(i) ==
    [title |-> i,
     title_japanese |-> IF i = 2 THEN None ELSE i,
     title_romanji |-> IF i = 1 THEN i ELSE 10 + i,
     aired |-> IF i = 3 THEN None ELSE i]

\* pagination.last_visible_page of a catalog of T records.
LastVisiblePage(T) == IF T = 0 THEN 1 ELSE (T + PageSize - 1) \div PageSize

\* The "data" list of page p of a catalog of T records.
JikanPage(T, p) ==
    LET first == (p - 1) * PageSize
        len == IF T - first >= PageSize THEN PageSize
               ELSE IF T - first > 0 THEN T - first ELSE 0
    IN [n \in 1..len |-> JikanItem(first + n)]

\* What one page request ends in: a usable response, or an exception.
Caught == {"ConnectionError", "HTTPError", "AssertionError"}
Uncaught == {"KeyError", "JSONDecodeError"}
Responses == {"ok"} \cup Caught \cup Uncaught

EpisodeData(num, item) ==
    [number |-> num,
     title_en |-> item.title,
     title_ja |-> item.title_japanese,
     title_romaji |-> item.title_romanji,
     aired |-> item.aired]

\* The records main() builds from one page: enumerate(data["data"], 1).
PageRecords(data) == [n \in 1..Len(data) |-> EpisodeData(n, data[n])]

\* ------------------------------------------------------- claims and outputs
\* An ExtraProperty: a claim with its qualifiers and references.
ExtraProperty(prop, val) ==
    [prop |-> prop, val |-> val, quals |-> {}, refs |-> {}, skip_if_conflicting_exists |-> FALSE]

add_qualifier(p, prop, val) == [p EXCEPT !.quals = @ \cup {[prop |-> prop, val |-> val]}]

\* Bot.reference: the stated-in and catalog-id claims are match keys, the URL
\* claim is not.
reference(myanimelist_id) ==
    [url_match_pattern |-> myanimelist_id,
     claims |-> {[prop |-> stated_in, val |-> Item(myanimelist), also_match_property_values |-> TRUE],
                 [prop |-> mal_id, val |-> Str(myanimelist_id), also_match_property_values |-> TRUE],
                 [prop |-> url_prop, val |-> Url(myanimelist_id), also_match_property_values |-> FALSE]}]

add_reference(p, ref) == [p EXCEPT !.refs = @ \cup {ref}]

\* Mutant of WithReferences: only the first property of the output is referenced.
WithReferencesFirstOnly(output, myanimelist_id) ==
    [i \in 1..Len(output) |->
        IF i = 1 THEN add_reference(output[i], reference(myanimelist_id)) ELSE output[i]]

\* Bot.process, lines 133-135: every property of the output gets the reference.
WithReferences(output, myanimelist_id) ==
    [i \in 1..Len(output) |-> add_reference(output[i], reference(myanimelist_id))]

\* ------------------------------------------------------ the knowledge base
\* A stored statement is a claim on a subject; kb_stmts keeps them in the order
\* they were added.
MatchKeys(ref) == {c \in ref.claims : c.also_match_property_values}

\* Adding a reference: one whose match keys are already on the statement only
\* completes that reference, it is not added a second time.
MergeRef(refs, ref) ==
    IF \E e \in refs : MatchKeys(e) = MatchKeys(ref)
    THEN {IF MatchKeys(e) = MatchKeys(ref) THEN [e EXCEPT !.claims = @ \cup ref.claims] ELSE e : e \in refs}
    ELSE refs \cup {ref}

RECURSIVE MergeRefs(_, _)
MergeRefs(refs, new) ==
    IF new = {} THEN refs
    ELSE LET ref == CHOOSE x \in new : TRUE
         IN MergeRefs(MergeRef(refs, ref), new \ {ref})

\* The submission layer on one claim: a claim already on the item is not added
\* again (its qualifiers and references are completed), a claim marked
\* skip-if-conflicting is dropped when the item has another value, any other
\* claim is appended.
AddClaim(stmts, subj, p) ==
    IF \E i \in 1..Len(stmts) : stmts[i].subj = subj /\ stmts[i].prop = p.prop /\ stmts[i].val = p.val
    THEN [i \in 1..Len(stmts) |->
            IF stmts[i].subj = subj /\ stmts[i].prop = p.prop /\ stmts[i].val = p.val
            THEN [stmts[i] EXCEPT !.quals = @ \cup p.quals, !.refs = MergeRefs(@, p.refs)]
            ELSE stmts[i]]
    ELSE IF p.skip_if_conflicting_exists
            /\ \E i \in 1..Len(stmts) : stmts[i].subj = subj /\ stmts[i].prop = p.prop
    THEN stmts
    ELSE Append(stmts, [subj |-> subj, prop |-> p.prop, val |-> p.val, quals |-> p.quals, refs |-> p.refs])

\* PropertyAdderBot.process: the output's claims are written to the item, in order.
RECURSIVE SuperProcess(_, _, _)
SuperProcess(stmts, subj, output) ==
    IF output = <<>> THEN stmts
    ELSE SuperProcess(AddClaim(stmts, subj, Head(output)), subj, Tail(output))

\* Bot.process: reference everything, then submit.
process(stmts, subj, output, myanimelist_id) ==
    SuperProcess(stmts, subj, WithReferences(output, myanimelist_id))

StmtsOf(stmts, subj, prop) == SelectSeq(stmts, LAMBDA st : st.subj = subj /\ st.prop = prop)

\* season_container.claims(has_parts).values: the targets, in stored order.
HasPartsValues(stmts, s) ==
    LET hp == StmtsOf(stmts, s, has_parts) IN [i \in 1..Len(hp) |-> hp[i].val.n]

\* The items the query "?item wdt:P4908 wd:<season>" matches.
SparqlItems(stmts, s) ==
    {st.subj : st \in {x \in Range(stmts) : x.prop = season /\ x.val = Item(s)}}

\* Bot.__init__, lines 80-82: the has-parts targets, or, that list being empty,
\* the query's result.  The query has no ORDER BY: its rows come in any order.
EpisodeItemsChoices(stmts, s) ==
    IF Len(HasPartsValues(stmts, s)) # 0 THEN {HasPartsValues(stmts, s)}
    ELSE Perms(SparqlItems(stmts, s))

\* Mutant of InitError: the declared episode count is not checked.
InitErrorNoDeclared(items, data, stmts, s) ==
    IF Len(items) # 0 /\ ~(Len(items) <= Len(data)) THEN "AssertionError:existing"
    ELSE "none"

\* Mutant of InitError: the existing items must be fewer than the records.
InitErrorStrict(items, data, stmts, s) ==
    IF Len(items) # 0 /\ ~(Len(items) < Len(data)) THEN "AssertionError:existing"
    ELSE IF Len(StmtsOf(stmts, s, number_of_episodes)) # 0
            /\ StmtsOf(stmts, s, number_of_episodes)[1].val.n # Len(data)
    THEN "AssertionError:declared"
    ELSE "none"

\* Bot.__init__, lines 83-90: the two assertions, in order.
InitError(items, data, stmts, s) ==
    IF Len(items) # 0 /\ ~(Len(items) <= Len(data)) THEN "AssertionError:existing"
    ELSE IF Len(StmtsOf(stmts, s, number_of_episodes)) # 0
            /\ StmtsOf(stmts, s, number_of_episodes)[1].val.n # Len(data)
    THEN "AssertionError:declared"
    ELSE "none"

\* ------------------------------------------------------------ Bot's outputs
Alias(fmt, name, sn, ep, pad) == [fmt |-> fmt, name |-> name, season |-> sn, ep |-> ep, pad |-> pad]

\* str.strip on a title.  A title is the number of its trimmed text (below 100)
\* plus 100 for each way whitespace surrounds it: strip keeps the text.
Strip(t) == t % 100

\* Mutant of Aliases: the titles are compared as given, not trimmed.
AliasesUntrimmed(episode, anime_name_en, season_number) ==
    (IF episode.title_romaji # None /\ episode.title_romaji # episode.title_en
     THEN <<Alias("{title_romaji}", episode.title_romaji, None, None, 0)>> ELSE <<>>)
    \o (IF anime_name_en # None
        THEN <<Alias("{} Episode {}", anime_name_en, None, episode.number, 0),
               Alias("{} ep {}", anime_name_en, None, episode.number, 0),
               Alias("{} ep. {}", anime_name_en, None, episode.number, 0),
               Alias("{} ep{}", anime_name_en, None, episode.number, 0)>>
        ELSE <<>>)
    \o (IF season_number # None
        THEN <<Alias("{} Season {} Episode {}", anime_name_en, season_number, episode.number, 0),
               Alias("{} Season {} ep {}", anime_name_en, season_number, episode.number, 0),
               Alias("{} Season {} ep. {}", anime_name_en, season_number, episode.number, 0),
               Alias("{} S {} ep {}", anime_name_en, season_number, episode.number, 0),
               Alias("{} S {} ep. {}", anime_name_en, season_number, episode.number, 0),
               Alias("{} S{}EP{}", anime_name_en, season_number, episode.number, 0),
               Alias("{} S{}EP{}", anime_name_en, season_number, episode.number, 2),
               Alias("{} S{}E{}", anime_name_en, season_number, episode.number, 0),
               Alias("{} S{}E{}", anime_name_en, season_number, episode.number, 2)>>
        ELSE <<>>)

\* make_episode_item_output, lines 208-252: the English aliases, in order.
Aliases(episode, anime_name_en, season_number) ==
    (IF episode.title_romaji # None /\ Strip(episode.title_romaji) # Strip(episode.title_en)
     THEN <<Alias("{title_romaji}", episode.title_romaji, None, None, 0)>> ELSE <<>>)
    \o (IF anime_name_en # None
        THEN <<Alias("{} Episode {}", anime_name_en, None, episode.number, 0),
               Alias("{} ep {}", anime_name_en, None, episode.number, 0),
               Alias("{} ep. {}", anime_name_en, None, episode.number, 0),
               Alias("{} ep{}", anime_name_en, None, episode.number, 0)>>
        ELSE <<>>)
    \o (IF season_number # None
        THEN <<Alias("{} Season {} Episode {}", anime_name_en, season_number, episode.number, 0),
               Alias("{} Season {} ep {}", anime_name_en, season_number, episode.number, 0),
               Alias("{} Season {} ep. {}", anime_name_en, season_number, episode.number, 0),
               Alias("{} S {} ep {}", anime_name_en, season_number, episode.number, 0),
               Alias("{} S {} ep. {}", anime_name_en, season_number, episode.number, 0),
               Alias("{} S{}EP{}", anime_name_en, season_number, episode.number, 0),
               Alias("{} S{}EP{}", anime_name_en, season_number, episode.number, 2),
               Alias("{} S{}E{}", anime_name_en, season_number, episode.number, 0),
               Alias("{} S{}E{}", anime_name_en, season_number, episode.number, 2)>>
        ELSE <<>>)

\* make_episode_item_output, lines 253-259: the English description, if any.
Description(episode, anime_name_en, season_number) ==
    IF anime_name_en = None THEN Alias("", None, None, None, 0)
    ELSE IF season_number # None
    THEN Alias("Episode {} of {} Season {}", anime_name_en, season_number, episode.number, 0)
    ELSE Alias("Episode {} of {}", anime_name_en, None, episode.number, 0)

\* make_episode_item_output, lines 206-259 and 277: the new item's terms, for a
\* series label and a season ordinal as read from the knowledge base.
NewItemWith(id, episode, anime_name_en, season_number) ==
    [id |-> id,
     label_en |-> episode.title_en,
     label_ja |-> episode.title_ja,
     aliases_en |-> Aliases(episode, anime_name_en, season_number),
     description_en |-> Description(episode, anime_name_en, season_number)]

\* make_episode_item_output, lines 206-213 and 277: the new item's terms.
NewItem(id, episode, s) == NewItemWith(id, episode, AnimeNameEn(s), SeasonNumber(s))

\* make_episode_item_output, lines 260-284: the new item's claims.
make_episode_item_output(episode, s) ==
    <<ExtraProperty(instance_of, Item(anime_tv_series_episode)),
      ExtraProperty(origin_country, Item(japan)),
      ExtraProperty(original_language, Item(japanese))>>
    \o (IF episode.aired # None THEN <<ExtraProperty(publication_date, WbTime(episode.aired))>> ELSE <<>>)
    \o <<ExtraProperty(part_of_series, Item(AnimeItem))>>
    \o (IF episode.title_ja # None THEN <<ExtraProperty(title, WbMonolingualText(episode.title_ja))>> ELSE <<>>)
    \o <<add_qualifier(ExtraProperty(season, Item(s)), series_ordinal, Str(episode.number))>>

\* link_episode_item, lines 174-187: the preceding episode of a record.
FollowsTarget(episode, items) ==
    IF episode.number = 1 THEN NoValue ELSE Item(items[episode.number - 1])

\* link_episode_item, lines 188-201: the following episode of a record.
FollowedByTarget(episode, items, data) ==
    IF episode.number = Len(data) THEN NoValue ELSE Item(items[episode.number + 1])

\* Mutant of link_episode_item: the following episode is not a qualifier.
link_episode_item_OneQualifier(episode, items, data, s) ==
    <<add_qualifier(ExtraProperty(season, Item(s)), follows, FollowsTarget(episode, items)),
      ExtraProperty(follows, FollowsTarget(episode, items)),
      ExtraProperty(followed_by, FollowedByTarget(episode, items, data))>>

\* link_episode_item: the season-membership claim with both neighbours as
\* qualifiers, then the two neighbour claims.
link_episode_item(episode, items, data, s) ==
    <<add_qualifier(
          add_qualifier(ExtraProperty(season, Item(s)), follows, FollowsTarget(episode, items)),
          followed_by, FollowedByTarget(episode, items, data)),
      ExtraProperty(follows, FollowsTarget(episode, items)),
      ExtraProperty(followed_by, FollowedByTarget(episode, items, data))>>

\* Bot.run, lines 148-151: the season's episode count, never overwriting.
NumberOfEpisodesProp(data) ==
    [ExtraProperty(number_of_episodes, WbQuantity(Len(data))) EXCEPT !.skip_if_conflicting_exists = TRUE]

\* Mutant of HasPartsProp: the ordinal counts from 0.
HasPartsPropZeroBased(num, item) ==
    add_qualifier(ExtraProperty(has_parts, Item(item)), series_ordinal, Str(num - 1))

\* Bot.run, lines 156-157: the has-parts claim of the num-th pair.
HasPartsProp(num, item) == add_qualifier(ExtraProperty(has_parts, Item(item)), series_ordinal, Str(num))

\* Mutant of MissingEpisodes: every record gets a new item.
MissingEpisodesAll(data, items) == data

\* Bot.run, lines 139-140: the records still lacking an item.
MissingEpisodes(data, items) ==
    IF Len(items) = 0 \/ Len(items) < Len(data)
    THEN SubSeq(data, Len(items) + 1, Len(data))
    ELSE <<>>

\* Mutant of get_edit_group_id: every Bot mints its own id.
get_edit_group_id_Fresh(old_edit_group_id, minted) == minted

\* Bot.get_edit_group_id: the id handed in, or one minted for this Bot.
get_edit_group_id(old_edit_group_id, minted) ==
    IF old_edit_group_id # None THEN old_edit_group_id ELSE minted

\* ------------------------------------------------------------------ state
VARIABLES
    kb_stmts,       \* the knowledge base's statements, in stored order
    kb_created,     \* the episode items created so far, with their terms
    invocations,    \* how many times main() was started
    pc,             \* where main() is
    err,            \* the exception that ended the invocation, or "none"
    season_ids,     \* the seasons still to process after the current one
    season_id,      \* the season being processed
    old_eg_id,      \* main's old_eg_id
    catalog,        \* how many records the current season's catalog holds
    page,           \* main's page
    count,          \* main's count (None until the first page is read)
    episode_data,   \* main's episode_data, then Bot.episode_data
    r,              \* what the last page request ended in
    episode_items,  \* Bot.episode_items
    todo,           \* the records the creation loop still iterates over
    num,            \* the linking loop's num
    season_oh,      \* Bot.run's season_oh
    units,          \* the transactional units this Bot submitted, in order
    start_items,    \* Bot.episode_items as __init__ read it
    last_done,      \* the season, catalog and knowledge base of the last completed run
    rerun,          \* the current run repeats last_done on the state it left
    done_units,     \* the units the invocation's earlier seasons submitted
    resumed_from,   \* the run repeats one whose linking unit of this position failed (else 0)
    builder         \* make_episode_item_output on its own: its inputs, then its result

vars == <<kb_stmts, kb_created, invocations, pc, err, season_ids, season_id, old_eg_id,
          catalog, page, count, episode_data, r, episode_items, todo, num, season_oh,
          units, start_items, last_done, rerun, done_units, resumed_from, builder>>

kb == <<kb_stmts, kb_created>>
main_vars == <<season_ids, season_id, old_eg_id, catalog, page, count, episode_data, r, rerun>>
bot_vars == <<episode_items, todo, num, season_oh, units, start_items>>
aux_vars == <<done_units, resumed_from, builder>>

NoRun == [season |-> None, catalog |-> 0, stmts |-> <<>>, created |-> <<>>]

\* The builder when main() runs: not in use.
NoBuild == [pc |-> "unused"]

MainInit ==
    /\ kb_stmts = <<>>
    /\ kb_created = <<>>
    /\ invocations = 0
    /\ pc = "idle"
    /\ err = "none"
    /\ season_ids = <<>>
    /\ season_id = None
    /\ old_eg_id = None
    /\ catalog = 0
    /\ page = 1
    /\ count = None
    /\ episode_data = <<>>
    /\ r = "none"
    /\ episode_items = <<>>
    /\ todo = <<>>
    /\ num = 1
    /\ season_oh = <<>>
    /\ units = <<>>
    /\ start_items = <<>>
    /\ last_done = NoRun
    /\ rerun = FALSE
    /\ done_units = <<>>
    /\ resumed_from = 0

Init == MainInit /\ builder = NoBuild

\* The sizes the remote catalog of a season may have: any for season 1, the
\* seasons 2 and 3 are short ones.
CatalogSizes(s) == IF s = 1 THEN 0..MaxN ELSE 1..ShortSeason

\* main, lines 298-307: the next season's catalog is about to be fetched.  The
\* catalog is the remote site's: it holds any number of records.
BeginSeason(s) ==
    /\ season_id' = s
    /\ \E T \in CatalogSizes(s) :
         /\ catalog' = T
         /\ rerun' = /\ last_done.season = s
                     /\ last_done.catalog = T
                     /\ last_done.stmts = kb_stmts
                     /\ last_done.created = kb_created
         /\ resumed_from' = IF /\ pc = "terminated" /\ err = "APIError"
                               /\ season_oh # <<>> /\ num <= Len(episode_data)
                               /\ season_id = s /\ catalog = T
                            THEN num ELSE 0
    /\ page' = 1
    /\ count' = None
    /\ episode_data' = <<>>
    /\ r' = "none"
    /\ episode_items' = <<>>
    /\ todo' = <<>>
    /\ num' = 1
    /\ season_oh' = <<>>
    /\ units' = <<>>
    /\ start_items' = <<>>
    /\ pc' = "fetch"

\* main, lines 290-297: a new invocation, on the knowledge base as it is, for
\* one of the season lists the prompt may be answered with.
Main(inputs) ==
    /\ pc \in {"idle", "terminated"}
    /\ invocations < MaxInvocations
    /\ invocations' = invocations + 1
    /\ \E ids \in inputs :
         /\ season_ids' = Tail(ids)
         /\ BeginSeason(Head(ids))
    /\ old_eg_id' = None
    /\ err' = "none"
    /\ done_units' = <<>>
    /\ UNCHANGED <<kb, last_done, builder>>

StartMain == Main(SeasonIdInputs)

\* Mutant of FetchPage: the loop is left on the page after the last one.
FetchPageOnePageMore ==
    /\ pc = "fetch"
    /\ \E resp \in Responses :
         /\ r' = resp
         /\ IF resp = "ok"
            THEN LET new_count == IF count = None THEN LastVisiblePage(catalog) ELSE count
                 IN /\ count' = new_count
                    /\ episode_data' = episode_data \o PageRecords(JikanPage(catalog, page))
                    /\ IF page > new_count
                       THEN pc' = "bot_init" /\ page' = page
                       ELSE pc' = "fetch" /\ page' = page + 1
                    /\ err' = "none"
            ELSE /\ pc' = IF resp \in Caught THEN "sleep" ELSE "terminated"
                 /\ err' = IF resp \in Caught THEN "none" ELSE resp
                 /\ UNCHANGED <<count, episode_data, page>>
    /\ UNCHANGED <<kb, invocations, season_ids, season_id, old_eg_id, catalog, rerun,
                   bot_vars, last_done, aux_vars>>

\* Mutant of FetchPage: a failed request moves to the next page.
FetchPageAdvanceOnFailure ==
    /\ pc = "fetch"
    /\ \E resp \in Responses :
         /\ r' = resp
         /\ IF resp = "ok"
            THEN LET new_count == IF count = None THEN LastVisiblePage(catalog) ELSE count
                 IN /\ count' = new_count
                    /\ episode_data' = episode_data \o PageRecords(JikanPage(catalog, page))
                    /\ IF page = new_count
                       THEN pc' = "bot_init" /\ page' = page
                       ELSE pc' = "fetch" /\ page' = page + 1
                    /\ err' = "none"
            ELSE /\ pc' = IF resp \in Caught THEN "sleep" ELSE "terminated"
                 /\ err' = IF resp \in Caught THEN "none" ELSE resp
                 /\ page' = page + 1
                 /\ UNCHANGED <<count, episode_data>>
    /\ UNCHANGED <<kb, invocations, season_ids, season_id, old_eg_id, catalog, rerun,
                   bot_vars, last_done, aux_vars>>

\* main, lines 309-335: one page request.
FetchPage ==
    /\ pc = "fetch"
    /\ \E resp \in Responses :
         /\ r' = resp
         /\ IF resp = "ok"
            THEN LET new_count == IF count = None THEN LastVisiblePage(catalog) ELSE count
                 IN /\ count' = new_count
                    /\ episode_data' = episode_data \o PageRecords(JikanPage(catalog, page))
                    /\ IF page = new_count
                       THEN pc' = "bot_init" /\ page' = page
                       ELSE pc' = "fetch" /\ page' = page + 1
                    /\ err' = "none"
            ELSE /\ pc' = IF resp \in Caught THEN "sleep" ELSE "terminated"
                 /\ err' = IF resp \in Caught THEN "none" ELSE resp
                 /\ UNCHANGED <<count, episode_data, page>>
    /\ UNCHANGED <<kb, invocations, season_ids, season_id, old_eg_id, catalog, rerun,
                   bot_vars, last_done, aux_vars>>

\* main, lines 334-335: the handler sleeps, the loop asks for the same page again.
Sleep ==
    /\ pc = "sleep"
    /\ pc' = "fetch"
    /\ r' = "none"
    /\ UNCHANGED <<kb, invocations, err, season_ids, season_id, old_eg_id, catalog, page,
                   count, episode_data, rerun, bot_vars, last_done, aux_vars>>

\* Mutant of BotInit: the Bot is built inside the try block, its assertions are retried.
BotInitCaught ==
    /\ pc = "bot_init"
    /\ \E items \in EpisodeItemsChoices(kb_stmts, season_id) :
         /\ episode_items' = items
         /\ start_items' = items
         /\ err' = "none"
         /\ pc' = IF InitError(items, episode_data, kb_stmts, season_id) = "none"
                  THEN "create" ELSE "sleep"
         /\ todo' = MissingEpisodes(episode_data, items)
    /\ UNCHANGED <<kb, invocations, main_vars, num, season_oh, units, last_done, aux_vars>>

\* main, line 336, Bot.__init__ and the head of Bot.run (lines 139-140).
BotInit ==
    /\ pc = "bot_init"
    /\ \E items \in EpisodeItemsChoices(kb_stmts, season_id) :
         /\ episode_items' = items
         /\ start_items' = items
         /\ err' = InitError(items, episode_data, kb_stmts, season_id)
         /\ pc' = IF InitError(items, episode_data, kb_stmts, season_id) = "none"
                  THEN "create" ELSE "terminated"
         /\ todo' = MissingEpisodes(episode_data, items)
    /\ UNCHANGED <<kb, invocations, main_vars, num, season_oh, units, last_done, aux_vars>>

\* A transactional unit as the submission layer received it.
Unit(op, item, pos, number, output) ==
    [op |-> op, item |-> item, pos |-> pos, number |-> number,
     eg |-> get_edit_group_id(old_eg_id, season_id),
     claims |-> WithReferences(output, MyAnimeListId(season_id))]

\* A unit that fails raises; nothing catches it.
UnitFails ==
    /\ pc' = "terminated"
    /\ err' = "APIError"
    /\ UNCHANGED <<kb, invocations, main_vars, bot_vars, last_done, aux_vars>>

\* Bot.run, lines 140-146: one iteration of the creation loop.
CreateEpisodeItem ==
    /\ pc = "create"
    /\ todo # <<>>
    /\ \/ LET episode == Head(todo)
              id == NewItemId(kb_created)
              output == make_episode_item_output(episode, season_id)
          IN /\ kb_created' = Append(kb_created, NewItem(id, episode, season_id))
             /\ kb_stmts' = process(kb_stmts, id, output, MyAnimeListId(season_id))
             /\ episode_items' = Append(episode_items, id)
             /\ units' = Append(units, Unit("create_episode_item", id, Len(episode_items) + 1,
                                            episode.number, output))
             /\ todo' = Tail(todo)
             /\ UNCHANGED <<invocations, pc, err, main_vars, num, season_oh, start_items,
                            last_done, aux_vars>>
       \/ UnitFails

\* Mutant of StartLinking: linking starts while records still lack an item.
StartLinkingEarly ==
    /\ pc = "create"
    /\ season_oh' = <<NumberOfEpisodesProp(episode_data)>>
    /\ num' = 1
    /\ pc' = "link"
    /\ UNCHANGED <<kb, invocations, err, main_vars, episode_items, todo, units, start_items,
                   last_done, aux_vars>>

\* Bot.run, lines 147-152: the season's output starts with the episode count.
StartLinking ==
    /\ pc = "create"
    /\ todo = <<>>
    /\ season_oh' = <<NumberOfEpisodesProp(episode_data)>>
    /\ num' = 1
    /\ pc' = "link"
    /\ UNCHANGED <<kb, invocations, err, main_vars, episode_items, todo, units, start_items,
                   last_done, aux_vars>>

\* Bot.run, lines 153-162: one iteration of the linking loop over
\* zip(episode_data, episode_items).
LinkEpisode ==
    /\ pc = "link"
    /\ num <= Min(Len(episode_data), Len(episode_items))
    /\ \/ LET episode == episode_data[num]
              item == episode_items[num]
              output == link_episode_item(episode, episode_items, episode_data, season_id)
          IN /\ kb_stmts' = process(kb_stmts, item, output, MyAnimeListId(season_id))
             /\ units' = Append(units, Unit("add_episode_links", item, num, episode.number, output))
             /\ season_oh' = Append(season_oh, HasPartsProp(num, item))
             /\ num' = num + 1
             /\ UNCHANGED <<kb_created, invocations, pc, err, main_vars, episode_items, todo,
                            start_items, last_done, aux_vars>>
       \/ UnitFails

\* Bot.run, lines 163-166: the season's unit.
LinkSeason ==
    /\ pc = "link"
    /\ num > Min(Len(episode_data), Len(episode_items))
    /\ \/ /\ kb_stmts' = process(kb_stmts, season_id, season_oh, MyAnimeListId(season_id))
          /\ units' = Append(units, Unit("add_season_links", season_id, 0, 0, season_oh))
          /\ pc' = "season_done"
          /\ last_done' = [season |-> season_id, catalog |-> catalog,
                           stmts |-> kb_stmts', created |-> kb_created]
          /\ UNCHANGED <<kb_created, invocations, err, main_vars, episode_items, todo, num,
                         season_oh, start_items, aux_vars>>
       \/ UnitFails

\* main, line 340 and the loop's next round: the edit group id is kept for the
\* next season; after the last season main returns.
SeasonDone ==
    /\ pc = "season_done"
    /\ old_eg_id' = get_edit_group_id(old_eg_id, season_id)
    /\ done_units' = done_units \o units
    /\ IF season_ids = <<>>
       THEN /\ pc' = "idle"
            /\ UNCHANGED <<season_ids, season_id, catalog, page, count, episode_data, r, rerun,
                           bot_vars, resumed_from>>
       ELSE /\ season_ids' = Tail(season_ids)
            /\ BeginSeason(Head(season_ids))
    /\ UNCHANGED <<kb, invocations, err, last_done, builder>>

Next ==
    \/ StartMain
    \/ FetchPage
    \/ Sleep
    \/ BotInit
    \/ CreateEpisodeItem
    \/ StartLinking
    \/ LinkEpisode
    \/ LinkSeason
    \/ SeasonDone

Spec == Init /\ [][Next]_vars

\* main, lines 290-297 and 340: invocations whose prompt is answered with
\* several season ids, so that one invocation runs one Bot per season.
SeveralSeasonIdInputs == {<<2, 3>>}

StartMainSeveral == Main(SeveralSeasonIdInputs)

NextSeasons ==
    \/ StartMainSeveral
    \/ FetchPage
    \/ Sleep
    \/ BotInit
    \/ CreateEpisodeItem
    \/ StartLinking
    \/ LinkEpisode
    \/ LinkSeason
    \/ SeasonDone

SpecSeasons == Init /\ [][NextSeasons]_vars

\* main, lines 309-335: a page request that succeeds.
FetchOk == FetchPage /\ r' = "ok"

\* main up to the start of Bot.run: the prompt, the fetch loop and the
\* construction of the Bot, for one season or several.
StartMainAny == Main(SeasonIdInputs \cup SeveralSeasonIdInputs)

NextFetch ==
    \/ StartMainAny
    \/ FetchPage
    \/ Sleep
    \/ BotInit

\* The fetch loop where sleep(5) returns and a page that is asked for again
\* and again is served in the end.
SpecFetch == Init /\ [][NextFetch]_vars /\ WF_vars(Sleep) /\ SF_vars(FetchOk)

\* make_episode_item_output on its own.  Its inputs are a record, the series'
\* English label (None when the series has none) and the season's ordinal
\* (None when the season's part-of-series claim has no such qualifier); titles
\* come with and without surrounding whitespace.
TitleInputs == {1, 101, 2, 102}

BuilderEpisodes ==
    {[number |-> n, title_en |-> t, title_ja |-> None, title_romaji |-> ro, aired |-> None] :
        n \in 1..MaxN, t \in {1, 101}, ro \in {None} \cup TitleInputs}

BuilderInputs ==
    {[pc |-> "input", episode |-> e, anime_name_en |-> a, season_number |-> sn,
      item |-> None, output |-> <<>>] :
        e \in BuilderEpisodes, a \in {None, AnimeItem}, sn \in {None, 1, 2}}

BuilderInit == MainInit /\ builder \in BuilderInputs

BuildItem ==
    /\ builder.pc = "input"
    /\ builder' = [builder EXCEPT
                     !.pc = "built",
                     !.item = NewItemWith(NewItemId(kb_created), builder.episode,
                                          builder.anime_name_en, builder.season_number),
                     !.output = make_episode_item_output(builder.episode, 1)]
    /\ UNCHANGED <<kb, invocations, pc, err, main_vars, bot_vars, last_done, done_units,
                   resumed_from>>

NextBuilder == BuildItem

SpecBuilder == BuilderInit /\ [][NextBuilder]_vars

\* ----------------------------------------------------------------- claims
N == Len(episode_data)

\* The knowledge base holds the claim (prop, val) on the item.
Carries(item, prop, val) ==
    \E i \in 1..Len(kb_stmts) :
        kb_stmts[i].subj = item /\ kb_stmts[i].prop = prop /\ kb_stmts[i].val = val

\* Bot.__init__ has run for the current season (the fetch loop was left).
BotConstructed == r = "ok" /\ pc \in {"create", "link", "season_done", "terminated", "idle"}

RunComplete == pc = "season_done"

AssertionErrors == {"AssertionError:existing", "AssertionError:declared"}

UnitsOf(op) == SelectSeq(units, LAMBDA u : u.op = op)

\* The neighbours the chain must give the item at list position p.
ChainPredecessor(p) == IF p = 1 THEN NoValue ELSE Item(episode_items[p - 1])
ChainSuccessor(p) == IF p = N THEN NoValue ELSE Item(episode_items[p + 1])

ChainLinked ==
    /\ Len(episode_items) = N
    /\ \A p \in 1..N :
          /\ Carries(episode_items[p], follows, ChainPredecessor(p))
          /\ Carries(episode_items[p], followed_by, ChainSuccessor(p))

\* C1: after a complete run over N >= 1 records, the item at every list
\* position p carries a preceding-episode claim on the item at p-1 (no value
\* for p = 1) and a following-episode claim on the item at p+1 (no value for
\* p = N).
C1_ChainComplete == (RunComplete /\ N >= 1) => ChainLinked

\* C2: with k items found at the start, a complete run has submitted creations
\* for ordinals k+1..N only, in ascending order, has kept the k items at list
\* positions 1..k, holds N items, and has linked them into a complete chain.
C2_ResumeFromK ==
    RunComplete =>
        LET k == Len(start_items)
            created == UnitsOf("create_episode_item")
        IN /\ k <= N
           /\ Len(created) = N - k
           /\ \A i \in 1..Len(created) : created[i].number = k + i
           /\ SubSeq(episode_items, 1, k) = start_items
           /\ ChainLinked

\* The season's declared episode count differs from the number of records.
DeclaredMismatch ==
    /\ Len(StmtsOf(kb_stmts, season_id, number_of_episodes)) # 0
    /\ StmtsOf(kb_stmts, season_id, number_of_episodes)[1].val.n # N

\* C3: when the season's declared episode count differs from the number of
\* catalog records, the season's processing ends in the assertion's error and
\* no unit of the season has been submitted.
C3_DeclaredCountAborts ==
    (BotConstructed /\ DeclaredMismatch) =>
        (pc = "terminated" /\ err \in AssertionErrors /\ units = <<>>)

C3_Witness == pc = "terminated" /\ err = "AssertionError:declared" /\ DeclaredMismatch /\ N >= 1

\* C4: when more episode items are found than the catalog has records, the
\* season's processing ends in the assertion's error with no unit submitted;
\* when at most as many are found, that error is not raised.
C4_ExistingCountAborts ==
    BotConstructed =>
        /\ Len(start_items) > N =>
              (pc = "terminated" /\ err = "AssertionError:existing" /\ units = <<>>)
        /\ Len(start_items) <= N => err # "AssertionError:existing"

C4_Witness ==
    /\ pc = "terminated" /\ err = "AssertionError:existing"
    /\ Len(start_items) > N /\ N >= 1

OpRank(op) ==
    IF op = "create_episode_item" THEN 1 ELSE IF op = "add_episode_links" THEN 2 ELSE 3

\* C6: the units of a run are submitted in the order creations (list position
\* ascending), linkings (list position ascending), one season unit; no
\* linking happens while a record lacks an item, and the season unit comes
\* after all N linkings.
C6_UnitOrder ==
    LET created == UnitsOf("create_episode_item")
        linked == UnitsOf("add_episode_links")
        seasons == UnitsOf("add_season_links")
    IN /\ \A i, j \in 1..Len(units) : i < j => OpRank(units[i].op) <= OpRank(units[j].op)
       /\ \A i \in 1..Len(created) : created[i].pos = Len(start_items) + i
       /\ \A i \in 1..Len(linked) : linked[i].pos = i
       /\ Len(linked) >= 1 => (todo = <<>> /\ Len(episode_items) = N
                                /\ Len(created) = N - Len(start_items))
       /\ Len(seasons) <= 1
       /\ Len(seasons) = 1 => Len(linked) = N

C6_Witness ==
    /\ RunComplete
    /\ Len(UnitsOf("create_episode_item")) >= 2
    /\ Len(UnitsOf("add_episode_links")) >= 2
    /\ Len(UnitsOf("add_season_links")) = 1

\* The provenance reference of the season being processed, spelled out.
IsProvenance(ref) ==
    /\ MatchKeys(ref) = {[prop |-> stated_in, val |-> Item(myanimelist), also_match_property_values |-> TRUE],
                         [prop |-> mal_id, val |-> Str(MyAnimeListId(season_id)), also_match_property_values |-> TRUE]}
    /\ ref.claims \ MatchKeys(ref) =
          {[prop |-> url_prop, val |-> Url(MyAnimeListId(season_id)), also_match_property_values |-> FALSE]}

\* C7: every claim of every unit submitted (creation, linking, season) carries
\* the provenance reference, and so does every statement stored.
C7_EveryClaimReferenced ==
    /\ \A i \in 1..Len(units) : \A j \in 1..Len(units[i].claims) :
          \E ref \in units[i].claims[j].refs : IsProvenance(ref)
    /\ \A i \in 1..Len(kb_stmts) : \E ref \in kb_stmts[i].refs : IsProvenance(ref)

C7_Witness ==
    /\ RunComplete
    /\ Len(UnitsOf("create_episode_item")) >= 1
    /\ Len(UnitsOf("add_episode_links")) >= 1
    /\ Len(kb_stmts) >= 1

\* C8: every failure of a page request is absorbed: the loop sleeps and asks
\* for the same page again.
C8_FetchFailuresAbsorbed == r \in Responses \ {"ok"} => (pc = "sleep" /\ err = "none")

\* C9: when the fetch is over, the record at list index i (0-based) has
\* ordinal i+1.
C9_DenseOrdinals ==
    pc = "bot_init" => \A i \in 1..N : episode_data[i].number = i

\* The catalog record an episode item was created for.
RecordOf(item) ==
    LET e == CHOOSE x \in Range(kb_created) : x.id = item IN e.label_en

\* C10: at every point of a run (Bot.__init__ passed, run not yet returned) the
\* item at list index i (0-based) is the item of ordinal i+1, one item per
\* ordinal, whether the list came from has-parts or from the query.
C10_ItemsAligned ==
    pc \in {"create", "link", "season_done"} =>
        /\ \A i \in 1..Len(episode_items) : RecordOf(episode_items[i]) = JikanItem(i).title
        /\ \A i, j \in 1..Len(episode_items) : episode_items[i] = episode_items[j] => i = j

\* The units of the invocation so far: the earlier seasons', then this season's.
InvocationUnits == done_units \o units

\* C11: in one invocation over several seasons, the first season's Bot mints
\* the edit group id (it is handed none) and every later season's Bot is
\* handed that id, returns it and tags its units with it.
C11_SharedEditGroup ==
    /\ old_eg_id = None =>
          /\ done_units = <<>>
          /\ \A i \in DOMAIN units : units[i].eg = season_id
    /\ old_eg_id # None =>
          /\ done_units # <<>>
          /\ old_eg_id = done_units[1].eg
          /\ get_edit_group_id(old_eg_id, season_id) = old_eg_id
    /\ \A i \in DOMAIN InvocationUnits : InvocationUnits[i].eg = InvocationUnits[1].eg

C11_Witness ==
    /\ done_units # <<>>
    /\ units # <<>>
    /\ season_id = 3
    /\ done_units[1].eg = 2
    /\ units[Len(units)].eg = 2

\* C12: the season's unit holds the episode count (the number of catalog
\* records, never overwriting a conflicting value), then one has-parts claim
\* per item of the list, in list order, the p-th qualified with the series
\* ordinal p and nothing else.
C12_SeasonUnit ==
    \A i \in DOMAIN units : units[i].op = "add_season_links" =>
        LET c == units[i].claims IN
        /\ units[i].item = season_id
        /\ Len(c) = 1 + Len(episode_items)
        /\ c[1].prop = number_of_episodes
        /\ c[1].val = WbQuantity(N)
        /\ c[1].skip_if_conflicting_exists
        /\ \A p \in 1..Len(episode_items) :
              /\ c[p + 1].prop = has_parts
              /\ c[p + 1].val = Item(episode_items[p])
              /\ c[p + 1].quals = {[prop |-> series_ordinal, val |-> Str(p)]}

C12_Witness ==
    /\ pc = "season_done"
    /\ N = MaxN
    /\ Len(episode_items) = MaxN
    /\ Len(UnitsOf("add_season_links")) = 1

\* The builder has built an item for a resolvable series label and season ordinal.
BuiltWithLabelAndSeason ==
    /\ builder.pc = "built"
    /\ builder.anime_name_en # None
    /\ builder.season_number # None

\* The romanized title is present and differs from the primary title once both
\* are trimmed.
RomajiDiffers ==
    /\ builder.episode.title_romaji # None
    /\ Strip(builder.episode.title_romaji) # Strip(builder.episode.title_en)

\* C13: with a series label and a season ordinal, the aliases are the
\* romanized title as given (only when it differs from the primary title after
\* trimming both; otherwise it is left out), then the four series-only
\* variants, then the nine season variants, two of them with season and
\* episode padded to two digits.
C13_AliasList ==
    BuiltWithLabelAndSeason =>
        LET a == builder.item.aliases_en
            k == IF RomajiDiffers THEN 1 ELSE 0
            name == builder.anime_name_en
            sn == builder.season_number
            ep == builder.episode.number
        IN /\ Len(a) = k + 13
           /\ RomajiDiffers =>
                 a[1] = Alias("{title_romaji}", builder.episode.title_romaji, None, None, 0)
           /\ \A i \in 1..4 :
                 /\ a[k + i].name = name /\ a[k + i].season = None
                 /\ a[k + i].ep = ep /\ a[k + i].pad = 0
           /\ <<a[k + 1].fmt, a[k + 2].fmt, a[k + 3].fmt, a[k + 4].fmt>>
                 = <<"{} Episode {}", "{} ep {}", "{} ep. {}", "{} ep{}">>
           /\ \A i \in 5..13 :
                 /\ a[k + i].name = name /\ a[k + i].season = sn /\ a[k + i].ep = ep
                 /\ a[k + i].pad = IF i \in {11, 13} THEN 2 ELSE 0
           /\ [i \in 1..9 |-> a[k + 4 + i].fmt]
                 = <<"{} Season {} Episode {}", "{} Season {} ep {}", "{} Season {} ep. {}",
                     "{} S {} ep {}", "{} S {} ep. {}", "{} S{}EP{}", "{} S{}EP{}",
                     "{} S{}E{}", "{} S{}E{}">>

C13_Witness ==
    /\ BuiltWithLabelAndSeason
    /\ RomajiDiffers
    /\ builder.episode.title_romaji = 102
    /\ builder.episode.title_en = 101
    /\ Len(builder.item.aliases_en) = 14

\* The same case with a romanized title that equals the primary one only after trimming.
C13_WitnessOmitted ==
    /\ BuiltWithLabelAndSeason
    /\ builder.episode.title_romaji = 101
    /\ builder.episode.title_en = 1
    /\ Len(builder.item.aliases_en) = 13

\* The description the builder leaves unset.
NoDescription == Alias("", None, None, None, 0)

\* C19: without a resolvable series label the builder produces no alias and no
\* description that embeds the label: the aliases are at most the romanized
\* title and the description is unset, with or without a season ordinal.
C19_NoLabelNoSeriesText ==
    (builder.pc = "built" /\ builder.anime_name_en = None) =>
        LET a == builder.item.aliases_en IN
        /\ Len(a) <= 1
        /\ \A i \in DOMAIN a :
              a[i] = Alias("{title_romaji}", builder.episode.title_romaji, None, None, 0)
        /\ builder.item.description_en = NoDescription

\* The season-membership claims of a unit.
SeasonClaims(u) == {i \in DOMAIN u.claims : u.claims[i].prop = season}

LinkFailed == pc = "terminated" /\ err = "APIError" /\ season_oh # <<>> /\ num <= N

\* Every claim of every unit the run submitted is in the knowledge base.
UnitsCommitted ==
    \A i \in DOMAIN units : \A j \in DOMAIN units[i].claims :
        Carries(units[i].item, units[i].claims[j].prop, units[i].claims[j].val)

\* C15: when the linking unit of position k fails, the linking units of the
\* positions below k are committed, no linking unit of a position above k and
\* no season unit is submitted in that run; a re-run on the same catalog
\* creates no item and, when it returns, has linked all N items into the chain
\* and written the season's unit.
C15_ResumeAfterLinkFailure ==
    /\ LinkFailed =>
          /\ [i \in 1..Len(UnitsOf("add_episode_links")) |-> UnitsOf("add_episode_links")[i].pos]
                = [i \in 1..(num - 1) |-> i]
          /\ UnitsOf("add_season_links") = <<>>
          /\ UnitsCommitted
    /\ resumed_from > 0 =>
          /\ UnitsOf("create_episode_item") = <<>>
          /\ UnitsCommitted
          /\ RunComplete =>
                /\ Len(UnitsOf("add_episode_links")) = N
                /\ Len(UnitsOf("add_season_links")) = 1
                /\ ChainLinked

\* The fetch loop was left and one of Bot.__init__'s two invariants is broken:
\* more items than records, or a declared episode count other than N.
InvariantViolated ==
    /\ pc = "bot_init"
    /\ \/ DeclaredMismatch
       \/ \E items \in EpisodeItemsChoices(kb_stmts, season_id) : Len(items) > N

\* Every claim of every unit of the invocation's earlier seasons is in the
\* knowledge base.
DoneUnitsCommitted ==
    \A i \in DOMAIN done_units : \A j \in DOMAIN done_units[i].claims :
        Carries(done_units[i].item, done_units[i].claims[j].prop, done_units[i].claims[j].val)

SeasonAborted == pc = "terminated" /\ err \in AssertionErrors

\* C16: in an invocation over several seasons, a season whose invariant is
\* broken ends the invocation with the assertion's error: the retry handler of
\* the fetch loop does not take it, no unit of that season is submitted, the
\* units of the earlier seasons stay committed, and the seasons after it are
\* not processed (the next step, if any, is a new invocation).
C16_SeasonAbort ==
    /\ [](SeasonAborted => (units = <<>> /\ DoneUnitsCommitted))
    /\ [][InvariantViolated =>
              /\ pc' = "terminated"
              /\ err' \in AssertionErrors
              /\ units' = <<>>
              /\ kb_stmts' = kb_stmts
              /\ kb_created' = kb_created
              /\ done_units' = done_units
              /\ season_id' = season_id
              /\ season_ids' = season_ids]_vars
    /\ [][SeasonAborted =>
              /\ invocations' = invocations + 1
              /\ kb_stmts' = kb_stmts
              /\ done_units' = <<>>]_vars

\* The second season aborts after the first one's units were committed.
C16_Witness ==
    /\ SeasonAborted
    /\ season_id = 3
    /\ done_units # <<>>
    /\ DoneUnitsCommitted

\* The first season aborts with the second one still to come.
C16_WitnessFirst ==
    /\ SeasonAborted
    /\ season_id = 2
    /\ season_ids = <<3>>

RECURSIVE PagesThrough(_)
\* The catalog's records on the pages 1..p, in page order.
PagesThrough(p) == IF p = 0 THEN <<>> ELSE PagesThrough(p - 1) \o JikanPage(catalog, p)

\* The catalog records the record list was built from, in list order.
Sources(data) ==
    [i \in 1..Len(data) |->
        [title |-> data[i].title_en, title_japanese |-> data[i].title_ja,
         title_romanji |-> data[i].title_romaji, aired |-> data[i].aired]]

\* C17: however failed and successful page requests interleave, the record
\* list holds the records of the pages already passed, each once and in page
\* order, and on leaving the loop those of the pages 1..last_page; a failed
\* request appends nothing and keeps the page counter, a successful one
\* appends its page once and moves to the next page (or leaves the loop on the
\* last one).
C17_PagesOnceInOrder ==
    /\ [](pc \in {"fetch", "sleep"} => Sources(episode_data) = PagesThrough(page - 1))
    /\ [](pc = "bot_init" =>
             /\ page = LastVisiblePage(catalog)
             /\ Sources(episode_data) = PagesThrough(LastVisiblePage(catalog))
             /\ Len(episode_data) = catalog)
    /\ [][pc = "fetch" =>
             IF r' = "ok"
             THEN /\ Sources(episode_data') = Sources(episode_data) \o JikanPage(catalog, page)
                  /\ \/ pc' = "fetch" /\ page' = page + 1
                     \/ pc' = "bot_init" /\ page' = page
             ELSE episode_data' = episode_data /\ page' = page /\ pc' # "bot_init"]_vars

\* The loop is left after a catalog of several pages.
C17_Witness ==
    /\ pc = "bot_init"
    /\ page >= 2
    /\ catalog > PageSize
    /\ Len(episode_data) = catalog

\* A request for the second page has failed and is about to be repeated.
C17_WitnessRetry ==
    /\ pc = "sleep"
    /\ page = 2
    /\ Len(episode_data) = PageSize

\* A page request raised what the handler does not catch: that request did
\* not succeed and is never repeated.
FetchAbandoned == pc = "terminated" /\ r \in Uncaught

\* C18: when every page request succeeds in the end, the fetch loop is left,
\* whatever page count the first page reported, and it is left on the page of
\* that number with the records of exactly that many pages.
C18_FetchTerminates ==
    /\ [](pc \in {"fetch", "sleep"} => <>(pc = "bot_init" \/ FetchAbandoned))
    /\ [](pc = "bot_init" =>
             /\ count = LastVisiblePage(catalog)
             /\ page = count
             /\ Sources(episode_data) = PagesThrough(count))

\* The loop was left after a page count above one.
C18_Witness ==
    /\ pc = "bot_init"
    /\ count >= 2
    /\ page = count

TypeOK ==
    /\ pc \in {"idle", "fetch", "sleep", "bot_init", "create", "link", "season_done", "terminated"}
    /\ Len(episode_data) <= MaxN
    /\ Len(episode_items) <= MaxN

====
